---------------------------- MODULE Spec2Model ----------------------------
(***************************************************************************)
(* Model of aaudio/hello-aaudio/src/main/cpp/audio_main.cpp: the engine    *)
(* singleton, the JNI controller entry points (createEngine, start, stop,  *)
(* deleteEngine), the detached render thread PlayAudioThreadProc and the   *)
(* buffer tuner TunePlayerForLowLatency, run against a model of the AAudio *)
(* stream the code calls into.                                             *)
(***************************************************************************)
EXTENDS Integers, Sequences, FiniteSets, TLC

VARIABLES
  engine,    \* the static AAudioEngine (lines 27-38)
  streams,   \* the AAudio streams of the device, by handle
  threads,   \* the render threads: position and locals of PlayAudioThreadProc
  ctl,       \* position of the controller inside createEngine
  ndebug,    \* TRUE when the build defines NDEBUG (assert compiles to nothing)
  aborted    \* TRUE once the process has died (failed assert, invalid handle)

vars == <<engine, streams, threads, ctl, ndebug, aborted>>

(***************************************************************************)
(* Bounds of the model.                                                    *)
(***************************************************************************)
MaxStreams == 2   \* streams ever opened (createEngine calls that open one)
MaxBurst == 2     \* largest framesPerBurst a device reports
MaxCap == 4       \* largest buffer capacity a device reports
MaxXRunStart == 1 \* largest underrun count a stream has when it is opened
Period == 2       \* frames after which a generator's waveform repeats

\* The underrun count is an int32_t in the code; the model keeps it in a
\* narrow range wide enough for one underrun per probe write.
MaxXRun == MaxCap + 1

\* Two slots for render threads: a thread that has ended frees its slot, and
\* createEngine is modelled while a slot is free, so that any number of
\* threads may be launched over time and two may run at once.
ThreadIds == {1, 2}
StreamIds == 1..MaxStreams
NULL == 0

AAUDIO_OK == 0
AAUDIO_ERROR == 0 - 1   \* any of the negative aaudio_result_t error codes
SIGSEGV == 0 - 11       \* the call did not return: the process was killed
AUDIO_SAMPLE_CHANNELS == 2
BitsPerSampleI16 == 16  \* SampleFormatToBpp(AAUDIO_FORMAT_PCM_I16)
SampleRate == 48000     \* what AAudioStream_getSampleRate reports
SizeofInt16 == 2        \* sizeof(int16_t), the element of the render buffer

(***************************************************************************)
(* The engine, zeroed as memset(&engine, 0, sizeof(engine)) leaves it.     *)
(***************************************************************************)
ZeroEngine ==
  [sampleRate_ |-> 0, sampleChannels_ |-> 0, bitsPerSample_ |-> 0,
   sampleFormat_ |-> "zero", playStream_ |-> NULL,
   requestStop_ |-> FALSE, playAudio_ |-> FALSE]

(***************************************************************************)
(* The device.  A stream is "sim" (it adopts every requested size, never   *)
(* fails, and a write underruns exactly when the buffer size is below its  *)
(* threshold) or "any" (a request may fail or adopt any size up to the     *)
(* capacity, a write may fail, and the underrun count may take any value). *)
(***************************************************************************)
NoStream ==
  [state |-> "NONE", kind |-> "any", framesPerBurst |-> 1, samplesPerFrame |-> 1,
   bufferCapacity |-> 1, bufferSize |-> 1, xRunCount |-> 0, xRunLimit |-> 0,
   threshold |-> 1]

\* a handle the device can serve: a stream that is open and not yet closed
ValidHandle(s) == s # NULL /\ streams[s].state \notin {"NONE", "CLOSED"}

\* a call through a handle the device cannot serve (null, or closed and
\* freed) is undefined: it kills the process or comes back with an error
InvalidCall == {[ret |-> SIGSEGV, size |-> 0, xrun |-> 0],
                [ret |-> AAUDIO_ERROR, size |-> 0, xrun |-> 0]}

\* AAudioStream_setBufferSizeInFrames(s, n): the possible outcomes, each the
\* value returned and the buffer size the device has afterwards
DevSetBufferSize(s, n) ==
  IF ~ValidHandle(s) THEN InvalidCall
  ELSE IF streams[s].kind = "sim"
  THEN {[ret |-> n, size |-> n, xrun |-> streams[s].xRunCount]}
  ELSE {[ret |-> AAUDIO_ERROR, size |-> streams[s].bufferSize,
         xrun |-> streams[s].xRunCount]}
       \cup {[ret |-> a, size |-> a, xrun |-> streams[s].xRunCount] :
               a \in 1..streams[s].bufferCapacity}

\* AAudioStream_write(s, buf, n, timeout): the possible outcomes, each the
\* value returned and the underrun count the device has afterwards
DevWrite(s, n) ==
  IF ~ValidHandle(s) THEN InvalidCall
  ELSE IF streams[s].kind = "sim"
  THEN {[ret |-> n, size |-> streams[s].bufferSize,
         xrun |-> IF streams[s].bufferSize < streams[s].threshold
                  THEN streams[s].xRunCount + 1 ELSE streams[s].xRunCount]}
  ELSE {[ret |-> r, size |-> streams[s].bufferSize, xrun |-> x] :
          r \in {AAUDIO_ERROR, 0, n}, x \in 0..streams[s].xRunLimit}

\* the device after a call with outcome o
After(s, o) ==
  IF ValidHandle(s)
  THEN [streams EXCEPT ![s].bufferSize = o.size, ![s].xRunCount = o.xrun]
  ELSE streams

(***************************************************************************)
(* The render thread's record: its position and the locals of              *)
(* PlayAudioThreadProc and of TunePlayerForLowLatency.  A local that is    *)
(* dead (out of scope, or overwritten before its next read) is kept at its *)
(* initial value.                                                          *)
(***************************************************************************)
NoThread ==
  [pc |-> "none", stream |-> NULL, framesPerBurst |-> 0, orgSize |-> 0,
   bufSize |-> 0, bufCap |-> 0, prevXRun |-> 0, prevBufSize |-> 0,
   trainingError |-> FALSE, status |-> FALSE, probeBytes |-> 0,
   \* history of the tuning run
   entryState |-> "NONE", entrySize |-> 0, entryXRun |-> 0,
   lastReq |-> 0, firstAdopted |-> 0, converged |-> FALSE,
   probed |-> FALSE, lastProbeRaised |-> FALSE,
   \* locals of PlayAudioThreadProc: the generators (each the number of
   \* frames it has rendered, within its period), the burst geometry, the
   \* render buffer (no buffer: the empty sequence) and the write's result
   sineOscLeft |-> 0, sineOscRight |-> 0,
   samplesPerFrame |-> 0, buf |-> << >>, bufSamples |-> 0, result |-> 0,
   \* the play flag as the current iteration read it
   playRead |-> FALSE]

Set(t, r) == [threads EXCEPT ![t] = r]

(***************************************************************************)
(* TunePlayerForLowLatency (lines 212-273).                                *)
(***************************************************************************)
\* (a tuner that also accepts a stream that is still starting)
TunerPreconditionLax(state) == state \in {"STARTING", "STARTED"}

\* line 214: the tuner goes on only when the stream is started
TunerPrecondition(state) == state = "STARTED"

\* line 232: the loop test
InSearchRange(bufSize, bufCap) == bufSize <= bufCap

\* line 234: a set request that failed
SetFailed(result) == result <= AAUDIO_OK

\* line 243: the device kept the size of the previous iteration
Converged(bufSize, prevBufSize) == bufSize = prevBufSize

\* line 251: a probe write that failed
ProbeFailed(result) == result < 0

\* (a test that takes an unchanged count for a new underrun)
NoNewXRunStrict(curXRun, prevXRun) == curXRun < prevXRun

\* line 257: the probe write raised no new underrun
NoNewXRun(curXRun, prevXRun) == curXRun <= prevXRun

\* line 262: the next candidate size
NextCandidate(bufSize, framesPerBurst) == bufSize + framesPerBurst

\* line 266: the tuner restores the original size after a tuning error
MustRestore(trainingError) == trainingError

\* lines 213-231: the state check and the set-up of the search.  The reads
\* through a handle the device cannot serve kill the process.
TuneEnter(t) ==
  LET r == threads[t]
      s == r.stream IN
  /\ ~aborted
  /\ r.pc = "tune_enter"
  /\ IF ~ValidHandle(s)
     THEN /\ aborted' = TRUE
          /\ UNCHANGED <<threads, streams>>
     ELSE LET d == streams[s]
              h == [r EXCEPT !.entryState = d.state, !.entrySize = d.bufferSize,
                             !.entryXRun = d.xRunCount]
          IN /\ IF ~TunerPrecondition(d.state)
                THEN threads' = Set(t, [h EXCEPT !.pc = "tuned", !.status = FALSE])
                ELSE threads' = Set(t, [h EXCEPT
                       !.pc = "tune_loop",
                       !.framesPerBurst = d.framesPerBurst,
                       !.orgSize = d.bufferSize,
                       !.bufSize = d.framesPerBurst,
                       !.bufCap = d.bufferCapacity,
                       !.probeBytes = (d.bufferCapacity * engine.bitsPerSample_) \div 8,
                       !.prevXRun = d.xRunCount,
                       !.prevBufSize = 0,
                       !.trainingError = FALSE])
             /\ UNCHANGED <<streams, aborted>>
  /\ UNCHANGED <<engine, ctl, ndebug>>

\* lines 232-248: the loop test, the set request, the read back and the
\* convergence test
TuneSet(t) ==
  LET r == threads[t]
      s == r.stream IN
  /\ ~aborted
  /\ r.pc = "tune_loop"
  /\ IF ~InSearchRange(r.bufSize, r.bufCap)
     THEN /\ threads' = Set(t, [r EXCEPT !.pc = "tune_exit"])
          /\ UNCHANGED <<streams, aborted>>
     ELSE \E o \in DevSetBufferSize(s, r.bufSize) :
            LET h == [r EXCEPT !.lastReq = r.bufSize,
                               !.firstAdopted = IF r.lastReq = 0 /\ ~SetFailed(o.ret)
                                                THEN o.size ELSE @] IN
            IF o.ret = SIGSEGV
            THEN /\ aborted' = TRUE
                 /\ UNCHANGED <<threads, streams>>
            ELSE /\ streams' = After(s, o)
                 /\ UNCHANGED aborted
                 /\ IF SetFailed(o.ret)
                    THEN threads' = Set(t, [h EXCEPT !.trainingError = TRUE,
                                                     !.pc = "tune_exit"])
                    ELSE IF Converged(o.size, r.prevBufSize)
                         THEN threads' = Set(t, [h EXCEPT !.bufSize = o.size,
                                                          !.converged = TRUE,
                                                          !.pc = "tune_exit"])
                         ELSE threads' = Set(t, [h EXCEPT !.bufSize = o.size,
                                                          !.prevBufSize = o.size,
                                                          !.pc = "tune_write"])
  /\ UNCHANGED <<engine, ctl, ndebug>>

\* lines 249-262: the probe write, its assert, the underrun test and the
\* step to the next candidate
TuneWrite(t) ==
  LET r == threads[t]
      s == r.stream IN
  /\ ~aborted
  /\ r.pc = "tune_write"
  /\ \E o \in DevWrite(s, r.bufCap) :
       LET h == [r EXCEPT !.probed = TRUE,
                          !.lastProbeRaised = (ValidHandle(s) /\
                                               o.xrun > streams[s].xRunCount)] IN
       IF o.ret = SIGSEGV
       THEN /\ aborted' = TRUE
            /\ UNCHANGED <<threads, streams>>
       ELSE /\ streams' = After(s, o)
            /\ IF ProbeFailed(o.ret)
               THEN IF ndebug
                    THEN /\ threads' = Set(t, [h EXCEPT !.trainingError = TRUE,
                                                        !.pc = "tune_exit"])
                         /\ UNCHANGED aborted
                    ELSE \* line 252: assert(result >= 0) fails
                         /\ threads' = Set(t, [h EXCEPT !.pc = "tune_assert"])
                         /\ aborted' = TRUE
               ELSE /\ UNCHANGED aborted
                    /\ IF NoNewXRun(o.xrun, r.prevXRun)
                       THEN threads' = Set(t, [h EXCEPT !.pc = "tune_exit"])
                       ELSE threads' = Set(t, [h EXCEPT
                              !.prevXRun = o.xrun,
                              !.bufSize = NextCandidate(r.bufSize, r.framesPerBurst),
                              !.pc = "tune_loop"])
  /\ UNCHANGED <<engine, ctl, ndebug>>

\* lines 265-272: the probe buffer is freed; after a tuning error the
\* original size is requested again (the result of the request is not
\* looked at) and the tuner returns failure
TuneExit(t) ==
  LET r == threads[t]
      s == r.stream IN
  /\ ~aborted
  /\ r.pc = "tune_exit"
  /\ IF MustRestore(r.trainingError)
     THEN \E o \in DevSetBufferSize(s, r.orgSize) :
            IF o.ret = SIGSEGV
            THEN /\ aborted' = TRUE
                 /\ UNCHANGED <<threads, streams>>
            ELSE /\ streams' = After(s, o)
                 /\ threads' = Set(t, [r EXCEPT !.pc = "tuned", !.status = FALSE,
                                                !.probeBytes = 0])
                 /\ UNCHANGED aborted
     ELSE /\ threads' = Set(t, [r EXCEPT !.pc = "tuned", !.status = ~r.trainingError,
                                         !.probeBytes = 0])
          /\ UNCHANGED <<streams, aborted>>
  /\ UNCHANGED <<engine, ctl, ndebug>>

Tuner(t) == TuneEnter(t) \/ TuneSet(t) \/ TuneWrite(t) \/ TuneExit(t)

(***************************************************************************)
(* PlayAudioThreadProc (lines 66-117).                                     *)
(***************************************************************************)
\* A sample of the render buffer.  A stale sample is one the current
\* iteration has not written: uninitialised memory of new int16_t[], or
\* what an earlier iteration left there.
Stale == [kind |-> "stale", osc |-> "none", frame |-> 0]
Silence == [kind |-> "zero", osc |-> "none", frame |-> 0]

\* SineGenerator: the sample a generator gives for the k-th frame it
\* renders; the waveform repeats after Period frames
SineSample(osc, k) == [kind |-> "sine", osc |-> osc, frame |-> k % Period]

\* SineGenerator::render(buffer + offset, channelStride, numFrames) of a
\* generator that has rendered phase frames so far: numFrames samples, the
\* first at the offset, each channelStride elements after the one before
Render(buf, offset, channelStride, numFrames, osc, phase) ==
  [i \in 1..Len(buf) |->
     IF /\ i - 1 >= offset
        /\ (i - 1 - offset) % channelStride = 0
        /\ (i - 1 - offset) \div channelStride < numFrames
     THEN SineSample(osc, phase + ((i - 1 - offset) \div channelStride))
     ELSE buf[i]]

\* the generator's phase after it has rendered numFrames more frames
AdvancePhase(phase, numFrames) == (phase + numFrames) % Period

\* line 99: memset(buf, 0, bytes) on the int16_t buffer
MemsetBuf(buf, bytes) ==
  [i \in 1..Len(buf) |-> IF (i - 1) * SizeofInt16 < bytes THEN Silence ELSE buf[i]]

\* line 88: new int16_t[n]
NewBuf(n) == [i \in 1..n |-> Stale]

\* (a test that takes only a device of more than two channels for stereo)
IsStereoWide(samplesPerFrame) == samplesPerFrame > 2

\* line 95: the left generator is rendered when the device is stereo
IsStereo(samplesPerFrame) == samplesPerFrame = 2

\* (a loop that runs the tuner again after it has failed)
AfterTuningRetry(status) == IF status THEN "loop" ELSE "start"

\* lines 70-76: a tuner failure is only logged; the thread goes on to set
\* up its loop whatever the tuner returned
AfterTuning(status) == "loop"

\* line 105: what assert(result > 0) expects of a steady-state write
WriteAccepted(result) == result > 0

\* line 92: the loop goes on while no stop is requested
KeepRunning(requestStop) == ~requestStop

\* line 69: the thread reads the handle it passes to the tuner
ThreadStart(t) ==
  /\ ~aborted
  /\ threads[t].pc = "start"
  /\ threads' = Set(t, [threads[t] EXCEPT !.pc = "tune_enter",
                                          !.stream = engine.playStream_])
  /\ UNCHANGED <<engine, streams, ctl, ndebug, aborted>>

\* lines 70-89: the tuner has returned (a failure is only logged); the
\* generators are set up, the burst geometry is read through the engine's
\* handle and the render buffer is allocated.  The reads through a handle
\* the device cannot serve kill the process.
LoopSetup(t) ==
  LET r == threads[t]
      s == engine.playStream_ IN
  /\ ~aborted
  /\ r.pc = "tuned"
  /\ IF ValidHandle(s)
     THEN /\ threads' = Set(t, [NoThread EXCEPT
               !.pc = AfterTuning(r.status),
               !.framesPerBurst = streams[s].framesPerBurst,
               !.samplesPerFrame = streams[s].samplesPerFrame,
               !.buf = NewBuf(streams[s].framesPerBurst * streams[s].samplesPerFrame),
               !.bufSamples = streams[s].framesPerBurst * streams[s].samplesPerFrame])
          /\ UNCHANGED <<streams, aborted>>
     ELSE /\ aborted' = TRUE
          /\ UNCHANGED <<threads, streams>>
  /\ UNCHANGED <<engine, ctl, ndebug>>

\* line 92: the loop test reads the stop flag.  The read is not synchronised
\* with the controller's write; every iteration calls into the device
\* library, so the flag is read afresh each time and a stale value is a
\* read that came before the write.
LoopTest(t) ==
  /\ ~aborted
  /\ threads[t].pc = "loop"
  /\ threads' = Set(t, [threads[t] EXCEPT
       !.pc = IF KeepRunning(engine.requestStop_) THEN "render" ELSE "free"])
  /\ UNCHANGED <<engine, streams, ctl, ndebug, aborted>>

\* lines 93-100: the play flag is read once; when it is set the right
\* generator renders channel 0 and, on a stereo device, the left generator
\* renders channel 1; when it is clear the buffer is zeroed
LoopRender(t) ==
  LET r == threads[t]
      right == Render(r.buf, 0, r.samplesPerFrame, r.framesPerBurst,
                      "Right", r.sineOscRight)
      left == Render(right, 1, r.samplesPerFrame, r.framesPerBurst,
                     "Left", r.sineOscLeft)
  IN
  /\ ~aborted
  /\ r.pc = "render"
  /\ threads' = Set(t,
       IF engine.playAudio_
       THEN [r EXCEPT
               !.pc = "write", !.playRead = TRUE,
               !.buf = IF IsStereo(r.samplesPerFrame) THEN left ELSE right,
               !.sineOscRight = AdvancePhase(@, r.framesPerBurst),
               !.sineOscLeft = IF IsStereo(r.samplesPerFrame)
                               THEN AdvancePhase(@, r.framesPerBurst) ELSE @]
       ELSE [r EXCEPT
               !.pc = "write", !.playRead = FALSE,
               !.buf = MemsetBuf(@, SizeofInt16 * r.framesPerBurst * r.samplesPerFrame)])
  /\ UNCHANGED <<engine, streams, ctl, ndebug, aborted>>

\* lines 101-104: the block is written through the engine's handle
LoopWrite(t) ==
  LET r == threads[t]
      s == engine.playStream_ IN
  /\ ~aborted
  /\ r.pc = "write"
  /\ \E o \in DevWrite(s, r.framesPerBurst) :
       IF o.ret = SIGSEGV
       THEN /\ aborted' = TRUE
            /\ UNCHANGED <<threads, streams>>
       ELSE /\ streams' = After(s, o)
            /\ threads' = Set(t, [r EXCEPT !.pc = "assert", !.result = o.ret,
                                           !.buf = NewBuf(Len(@)),
                                           !.playRead = FALSE])
            /\ UNCHANGED aborted
  /\ UNCHANGED <<engine, ctl, ndebug>>

\* line 105: assert(result > 0), compiled out when NDEBUG is defined; then
\* the loop goes back to its test whatever the write returned
LoopAssert(t) ==
  LET r == threads[t] IN
  /\ ~aborted
  /\ r.pc = "assert"
  /\ IF WriteAccepted(r.result) \/ ndebug
     THEN /\ threads' = Set(t, [r EXCEPT !.pc = "loop", !.result = 0])
          /\ UNCHANGED aborted
     ELSE /\ aborted' = TRUE
          /\ UNCHANGED threads
  /\ UNCHANGED <<engine, streams, ctl, ndebug>>

\* lines 108-109: the render buffer is freed and the stop flag is cleared
LoopFree(t) ==
  /\ ~aborted
  /\ threads[t].pc = "free"
  /\ threads' = Set(t, [threads[t] EXCEPT !.pc = "reqstop", !.buf = << >>,
                                          !.bufSamples = 0])
  /\ engine' = [engine EXCEPT !.requestStop_ = FALSE]
  /\ UNCHANGED <<streams, ctl, ndebug, aborted>>

\* a call of the teardown through the engine's handle, which leaves the
\* stream in the given state
TeardownCall(t, to, state) ==
  LET s == engine.playStream_ IN
  IF ValidHandle(s)
  THEN /\ streams' = [streams EXCEPT ![s] = IF state = "CLOSED"
                                             THEN [NoStream EXCEPT !.state = "CLOSED"]
                                             ELSE [@ EXCEPT !.state = state]]
       /\ threads' = Set(t, [threads[t] EXCEPT !.pc = to])
       /\ UNCHANGED aborted
  ELSE \E o \in InvalidCall :
         IF o.ret = SIGSEGV
         THEN /\ aborted' = TRUE
              /\ UNCHANGED <<threads, streams>>
         ELSE /\ threads' = Set(t, [threads[t] EXCEPT !.pc = to])
              /\ UNCHANGED <<streams, aborted>>

\* line 111: AAudioStream_requestStop
LoopRequestStop(t) ==
  /\ ~aborted
  /\ threads[t].pc = "reqstop"
  /\ TeardownCall(t, "close", "STOPPING")
  /\ UNCHANGED <<engine, ctl, ndebug>>

\* line 113: AAudioStream_close
LoopClose(t) ==
  /\ ~aborted
  /\ threads[t].pc = "close"
  /\ TeardownCall(t, "clear", "CLOSED")
  /\ UNCHANGED <<engine, ctl, ndebug>>

\* line 114: the engine's handle is cleared, and the thread ends
LoopClear(t) ==
  /\ ~aborted
  /\ threads[t].pc = "clear"
  /\ threads' = Set(t, [threads[t] EXCEPT !.pc = "done"])
  /\ engine' = [engine EXCEPT !.playStream_ = NULL]
  /\ UNCHANGED <<streams, ctl, ndebug, aborted>>

RenderThread(t) ==
  \/ ThreadStart(t) \/ Tuner(t) \/ LoopSetup(t) \/ LoopTest(t) \/ LoopRender(t)
  \/ LoopWrite(t) \/ LoopAssert(t) \/ LoopFree(t) \/ LoopRequestStop(t)
  \/ LoopClose(t) \/ LoopClear(t)

(***************************************************************************)
(* The controller: createEngine, start, stop, deleteEngine (lines 123-199).*)
(***************************************************************************)
FreeStream == CHOOSE s \in StreamIds :
                /\ streams[s].state = "NONE"
                /\ \A u \in StreamIds : streams[u].state = "NONE" => s <= u
FreeThread == CHOOSE t \in ThreadIds :
                /\ threads[t].pc \in {"none", "done"}
                /\ \A u \in ThreadIds : threads[u].pc \in {"none", "done"} => t <= u

\* The stream CreateStream hands out in the whole-engine model: a stereo
\* device of the smallest geometry (one frame per burst, a capacity of one
\* burst, an underrun count that stays 0) whose calls may fail.  The tuner
\* is run against the wider family TunerStreams under TunerSpec.
EngineStreams ==
  [state : {"OPEN"}, kind : {"any"}, framesPerBurst : {1},
   samplesPerFrame : {AUDIO_SAMPLE_CHANNELS}, bufferCapacity : {1},
   bufferSize : {1}, xRunCount : {0}, xRunLimit : {0}, threshold : {1}]

\* (a createEngine that leaves the engine as the last session left it)
MemsetSkipped(e) == e

\* line 127: what memset(&engine, 0, sizeof(engine)) makes of the engine
MemsetEngine(e) == ZeroEngine

\* line 127: memset(&engine, 0, sizeof(engine))
CreateMemset ==
  /\ ~aborted
  /\ ctl = "idle"
  /\ \E s \in StreamIds : streams[s].state = "NONE"
  /\ \E t \in ThreadIds : threads[t].pc \in {"none", "done"}
  /\ engine' = MemsetEngine(engine)
  /\ ctl' = "init"
  /\ UNCHANGED <<streams, threads, ndebug, aborted>>

\* lines 130-137: InitAAudio, and the format fields on success
CreateInit ==
  /\ ~aborted
  /\ ctl = "init"
  /\ \/ /\ ctl' = "idle"
        /\ UNCHANGED engine
     \/ /\ engine' = [engine EXCEPT !.sampleChannels_ = AUDIO_SAMPLE_CHANNELS,
                                    !.sampleFormat_ = "PCM_I16",
                                    !.bitsPerSample_ = BitsPerSampleI16]
        /\ ctl' = "open"
  /\ UNCHANGED <<streams, threads, ndebug, aborted>>

\* lines 140-147: the stream is opened and its handle and rate are stored.
\* When CreateStream returns no stream, assert(engine.playStream_) kills a
\* build with asserts; a build without them goes on to read the sample
\* rate through the null handle.
CreateOpen ==
  /\ ~aborted
  /\ ctl = "open"
  /\ \/ \E d \in EngineStreams :
          /\ streams' = [streams EXCEPT ![FreeStream] = d]
          /\ engine' = [engine EXCEPT !.playStream_ = FreeStream,
                                      !.sampleRate_ = SampleRate]
          /\ ctl' = "start"
          /\ UNCHANGED aborted
     \/ \E o \in InvalidCall :
          IF ~ndebug \/ o.ret = SIGSEGV
          THEN /\ aborted' = TRUE
               /\ engine' = [engine EXCEPT !.playStream_ = NULL]
               /\ UNCHANGED <<streams, ctl>>
          ELSE /\ engine' = [engine EXCEPT !.playStream_ = NULL,
                                           !.sampleRate_ = o.ret]
               /\ ctl' = "start"
               /\ UNCHANGED <<streams, aborted>>
  /\ UNCHANGED <<threads, ndebug>>

\* what createEngine does with the result of AAudioStream_requestStart
\* (lines 149-152): on success it goes on to launch the thread; a failure
\* trips the assert or, with NDEBUG, returns false
StartResult(result) ==
  IF result = AAUDIO_OK
  THEN ctl' = "launch" /\ UNCHANGED aborted
  ELSE IF ndebug THEN ctl' = "idle" /\ UNCHANGED aborted
                 ELSE aborted' = TRUE /\ UNCHANGED ctl

\* lines 148-152: the start request through the engine's handle
CreateStart ==
  LET s == engine.playStream_ IN
  /\ ~aborted
  /\ ctl = "start"
  /\ IF ValidHandle(s)
     THEN \/ /\ streams' = [streams EXCEPT ![s].state = "STARTING"]
             /\ StartResult(AAUDIO_OK)
          \/ /\ UNCHANGED streams
             /\ StartResult(AAUDIO_ERROR)
     ELSE \E o \in InvalidCall :
            /\ UNCHANGED streams
            /\ IF o.ret = SIGSEGV
               THEN aborted' = TRUE /\ UNCHANGED ctl
               ELSE StartResult(o.ret)
  /\ UNCHANGED <<engine, threads, ndebug>>

\* lines 154-156: the render thread is launched detached
CreateLaunch ==
  /\ ~aborted
  /\ ctl = "launch"
  /\ threads' = Set(FreeThread, [NoThread EXCEPT !.pc = "start"])
  /\ ctl' = "idle"
  /\ UNCHANGED <<engine, streams, ndebug, aborted>>

createEngine == CreateMemset \/ CreateInit \/ CreateOpen \/ CreateStart \/ CreateLaunch

\* (a guard that never takes the early return)
NoStreamOpenNever(playStream) == FALSE

\* lines 166, 180, 195: if (!engine.playStream_), the early return of
\* start, stop and deleteEngine
NoStreamOpen(playStream) == playStream = NULL

\* lines 163-171
start ==
  /\ ~aborted
  /\ ctl = "idle"
  /\ engine' = IF NoStreamOpen(engine.playStream_) THEN engine
               ELSE [engine EXCEPT !.playAudio_ = TRUE]
  /\ UNCHANGED <<streams, threads, ctl, ndebug, aborted>>

\* lines 177-185
stop ==
  /\ ~aborted
  /\ ctl = "idle"
  /\ engine' = IF NoStreamOpen(engine.playStream_) THEN engine
               ELSE [engine EXCEPT !.playAudio_ = FALSE]
  /\ UNCHANGED <<streams, threads, ctl, ndebug, aborted>>

\* lines 192-199
deleteEngine ==
  /\ ~aborted
  /\ ctl = "idle"
  /\ engine' = IF NoStreamOpen(engine.playStream_) THEN engine
               ELSE [engine EXCEPT !.requestStop_ = TRUE]
  /\ UNCHANGED <<streams, threads, ctl, ndebug, aborted>>

\* the device finishes starting a stream some time after requestStart
DeviceStarted ==
  /\ ~aborted
  /\ \E s \in StreamIds :
       /\ streams[s].state = "STARTING"
       /\ streams' = [streams EXCEPT ![s].state = "STARTED"]
  /\ UNCHANGED <<engine, threads, ctl, ndebug, aborted>>

Init ==
  /\ engine = ZeroEngine
  /\ streams = [s \in StreamIds |-> NoStream]
  /\ threads = [t \in ThreadIds |-> NoThread]
  /\ ctl = "idle"
  /\ ndebug \in BOOLEAN
  /\ aborted = FALSE

Threads == \E t \in ThreadIds : RenderThread(t)

Next == createEngine \/ start \/ stop \/ deleteEngine \/ DeviceStarted \/ Threads

Spec == Init /\ [][Next]_vars

\* every launched thread keeps being scheduled, a createEngine call that has
\* begun runs to its end, and the device finishes starting; the host is free
\* never to call the controller again
FairSpec ==
  /\ Spec
  /\ \A t \in ThreadIds : WF_vars(RenderThread(t))
  /\ WF_vars(CreateInit \/ CreateOpen \/ CreateStart \/ CreateLaunch)
  /\ WF_vars(DeviceStarted)

(***************************************************************************)
(* The tuner alone: one call of TunePlayerForLowLatency on one stream, for *)
(* every device of the bounded family and both builds.                     *)
(***************************************************************************)
TunerStreams ==
  [state : {"STARTING", "STARTED"}, kind : {"any", "sim"},
   framesPerBurst : 1..MaxBurst, samplesPerFrame : {AUDIO_SAMPLE_CHANNELS},
   bufferCapacity : 1..MaxCap, bufferSize : 1..MaxCap,
   xRunCount : 0..MaxXRunStart, xRunLimit : {MaxXRun},
   threshold : 1..(MaxCap + 1)]

WellFormedStream(d) ==
  /\ d.framesPerBurst <= d.bufferCapacity
  /\ d.bufferSize <= d.bufferCapacity
  /\ d.kind = "any" => d.threshold = 1
  /\ d.kind = "sim" => d.xRunCount = 0

TunerInit ==
  /\ \E d \in TunerStreams :
       /\ WellFormedStream(d)
       /\ streams = [s \in StreamIds |-> IF s = 1 THEN d ELSE NoStream]
  /\ engine = [ZeroEngine EXCEPT !.sampleChannels_ = AUDIO_SAMPLE_CHANNELS,
                                 !.sampleFormat_ = "PCM_I16",
                                 !.bitsPerSample_ = BitsPerSampleI16,
                                 !.playStream_ = 1]
  /\ threads = [t \in ThreadIds |->
                  IF t = 1 THEN [NoThread EXCEPT !.pc = "tune_enter", !.stream = 1]
                  ELSE NoThread]
  /\ ctl = "idle"
  /\ ndebug \in BOOLEAN
  /\ aborted = FALSE

TunerNext == TuneEnter(1) \/ TuneSet(1) \/ TuneWrite(1) \/ TuneExit(1)

TunerSpec == TunerInit /\ [][TunerNext]_vars

\* the thread that runs the tuner is scheduled until the tuner returns
TunerFairSpec == TunerSpec /\ WF_vars(TunerNext)

(***************************************************************************)
(* The render loop alone: one PlayAudioThreadProc from the return of its   *)
(* tuner to the end of its teardown, on one started stream, for every      *)
(* burst size and for mono and stereo devices, with the controller's       *)
(* start, stop and deleteEngine running beside it.                         *)
(***************************************************************************)
RenderStreams ==
  [state : {"STARTED"}, kind : {"any"}, framesPerBurst : 1..MaxBurst,
   samplesPerFrame : 1..AUDIO_SAMPLE_CHANNELS, bufferCapacity : {MaxCap},
   bufferSize : {MaxCap}, xRunCount : {0}, xRunLimit : {0}, threshold : {1}]

RenderInit ==
  /\ \E d \in RenderStreams :
       streams = [s \in StreamIds |-> IF s = 1 THEN d ELSE NoStream]
  /\ engine = [ZeroEngine EXCEPT !.sampleChannels_ = AUDIO_SAMPLE_CHANNELS,
                                 !.sampleFormat_ = "PCM_I16",
                                 !.bitsPerSample_ = BitsPerSampleI16,
                                 !.sampleRate_ = SampleRate,
                                 !.playStream_ = 1]
  /\ threads = [t \in ThreadIds |->
                  IF t = 1 THEN [NoThread EXCEPT !.pc = "tuned", !.stream = 1]
                  ELSE NoThread]
  /\ ctl = "idle"
  /\ ndebug \in BOOLEAN
  /\ aborted = FALSE

RenderNext ==
  \/ LoopSetup(1) \/ LoopTest(1) \/ LoopRender(1) \/ LoopWrite(1) \/ LoopAssert(1)
  \/ LoopFree(1) \/ LoopRequestStop(1) \/ LoopClose(1) \/ LoopClear(1)
  \/ start \/ stop \/ deleteEngine

RenderSpec == RenderInit /\ [][RenderNext]_vars

(***************************************************************************)
(* Properties of the engine, checked under Spec and FairSpec.              *)
(***************************************************************************)
\* a render loop is active from its launch to the end of its teardown
Active(t) == threads[t].pc \notin {"none", "done"}

\* C1 (as stated): once deleteEngine has set the stop flag on an engine
\* with an open stream, every render loop that is running leaves its write
\* loop, tears down and ends, and the engine's handle is null then (unless
\* the process has died meanwhile).
C1_StopLeadsToTeardown ==
  \A t \in ThreadIds :
    (engine.requestStop_ /\ engine.playStream_ # NULL /\ Active(t))
      ~> ((threads[t].pc = "done" /\ engine.playStream_ = NULL) \/ aborted)

\* C2 (as stated): whenever a render loop is active, the engine's stream
\* handle is non-null.
C2_HandleWhileLoopActive ==
  \A t \in ThreadIds : Active(t) => engine.playStream_ # NULL

\* C3 (as stated): at most one render loop is active at any time, so that
\* no two loops use the engine's stream.
C3_OneLoopPerStream ==
  \A t, u \in ThreadIds : (Active(t) /\ Active(u)) => t = u

\* C9 (as stated): after a steady-state write has returned a non-positive
\* result, the next step of the render loop is the start of its teardown:
\* it does not go back to its loop test, and the process does not die with
\* the stream still open.
C9_FailedWriteEndsLoop ==
  [][\A t \in ThreadIds :
       (threads[t].pc = "assert" /\ ~WriteAccepted(threads[t].result))
         => (threads'[t].pc \in {"assert", "free"} /\ ~aborted')]_vars

\* C12: with a null stream handle, start, stop and deleteEngine change no
\* field of the engine and touch neither a stream nor a thread; with a
\* stream open, start sets the play flag, stop clears it, and neither
\* changes the stop flag or the handle.
C12_ControlCallsFrame ==
  [][/\ (start \/ stop \/ deleteEngine)
         => /\ streams' = streams /\ threads' = threads
            /\ engine'.playStream_ = engine.playStream_
            /\ engine.playStream_ = NULL => engine' = engine
     /\ (start \/ stop)
         => engine'.requestStop_ = engine.requestStop_
     /\ (start /\ engine.playStream_ # NULL) => engine'.playAudio_
     /\ (stop /\ engine.playStream_ # NULL) => ~engine'.playAudio_]_vars

\* the controller is free to call start, stop and deleteEngine on an engine
\* whose stream has been torn down, and the play flag set while the stream
\* was open is still what start left
C12_Witness ==
  /\ ctl = "idle" /\ engine.playStream_ = NULL /\ engine.playAudio_
  /\ \E s \in StreamIds : streams[s].state = "CLOSED"

\* C13 (as stated): deleteEngine only sets the stop flag: it changes no
\* stream, no thread and no other field of the engine; and the device stop,
\* the device close, the clearing of the stream handle and every device
\* write happen in steps of a render thread, never in a step of createEngine,
\* start, stop or deleteEngine.
C13_TeardownOnlyInLoop ==
  [][/\ deleteEngine
         => /\ streams' = streams /\ threads' = threads
            /\ engine' = [engine EXCEPT !.requestStop_ = engine'.requestStop_]
     /\ (engine.playStream_ # NULL /\ engine'.playStream_ = NULL)
         => \E t \in ThreadIds : threads[t].pc = "clear" /\ threads'[t].pc = "done"
     /\ \A s \in StreamIds :
          (streams'[s].state \in {"STOPPING", "CLOSED"}
             /\ streams'[s].state # streams[s].state)
            => \E t \in ThreadIds : /\ threads[t].pc \in {"reqstop", "close"}
                                    /\ threads'[t].pc \in {"close", "clear"}
     /\ (createEngine \/ start \/ stop \/ deleteEngine)
         => \A s \in StreamIds :
              /\ streams'[s].xRunCount = streams[s].xRunCount
              /\ streams[s].state # "NONE"
                   => streams'[s].bufferSize = streams[s].bufferSize]_vars

\* C14: a createEngine call in which InitAAudio reports no support returns
\* with the stream handle null and the play and stop flags false, and
\* neither its memset nor its return launches a thread or opens a stream.
C14_UnsupportedLeavesNothing ==
  [][/\ (ctl = "init" /\ ctl' = "idle")
         => /\ engine'.playStream_ = NULL
            /\ ~engine'.requestStop_ /\ ~engine'.playAudio_
            /\ threads' = threads /\ streams' = streams
     /\ (ctl = "idle" /\ ctl' = "init")
         => (threads' = threads /\ streams' = streams)]_vars

\* createEngine has failed in InitAAudio after an earlier engine had been
\* created, played and torn down: nothing of that session is left
C14_Witness ==
  /\ ctl = "idle" /\ engine = ZeroEngine
  /\ \E s \in StreamIds : streams[s].state = "CLOSED"

\* positions of a render thread: inside the tuner, inside the write loop,
\* inside the teardown
TunePcs == {"tune_enter", "tune_loop", "tune_write", "tune_exit", "tune_assert"}
LoopPcs == {"loop", "render", "write", "assert"}
TeardownPcs == {"free", "reqstop", "close", "clear"}

\* C15: a render thread enters the tuner only as its first step, enters
\* its write loop only after the tuner has returned, goes from the tuner's
\* return to the write loop whatever the tuner returned, and never enters
\* the tuner again from its write loop or its teardown.
C15_TunerOnceThenLoop ==
  [][\A t \in ThreadIds :
       /\ threads'[t].pc = "tune_enter" => threads[t].pc \in {"start", "tune_enter"}
       /\ threads[t].pc = "start" => threads'[t].pc \in {"start", "tune_enter"}
       /\ threads'[t].pc \in LoopPcs => threads[t].pc \in LoopPcs \cup {"tuned"}
       /\ threads[t].pc = "tuned" => threads'[t].pc \in {"tuned", "loop"}
       /\ threads[t].pc \in LoopPcs \cup TeardownPcs
            => threads'[t].pc \in LoopPcs \cup TeardownPcs \cup {"done"}]_vars

\* the only render thread is about to write a block while its stream is
\* still starting: its tuner has returned failure, and the loop went on
C15_Witness ==
  /\ threads[1].pc = "write" /\ threads[2].pc = "none"
  /\ engine.playStream_ = 1 /\ streams[1].state = "STARTING"
  /\ streams[2].state = "NONE"

\* C16 (as stated): a loop that has seen the stop flag releases its buffer,
\* requests the device stop, closes the device and clears the handle, in
\* this order and each once: the stop is requested on a stream that is
\* running, the close on the stream whose stop was requested, the handle
\* cleared is that of the closed stream; and no write is issued to a stream
\* whose stop has been requested.
C16_TeardownOrder ==
  [][\A t \in ThreadIds :
       LET h == engine.playStream_ IN
       /\ threads[t].pc = "free" => threads'[t].pc \in {"free", "reqstop"}
       /\ threads[t].pc = "reqstop" => threads'[t].pc \in {"reqstop", "close"}
       /\ threads[t].pc = "close" => threads'[t].pc \in {"close", "clear"}
       /\ threads[t].pc = "clear" => threads'[t].pc \in {"clear", "done"}
       /\ threads'[t].pc = "reqstop" => threads'[t].buf = << >>
       /\ (threads[t].pc = "reqstop" /\ threads'[t].pc = "close")
            => (h # NULL /\ streams[h].state \in {"STARTING", "STARTED"})
       /\ (threads[t].pc = "close" /\ threads'[t].pc = "clear")
            => (h # NULL /\ streams[h].state = "STOPPING")
       /\ (threads[t].pc = "clear" /\ threads'[t].pc = "done")
            => (h # NULL /\ streams[h].state = "CLOSED")
       /\ (threads[t].pc = "write" /\ threads'[t].pc = "assert" /\ h # NULL)
            => streams[h].state \notin {"STOPPING", "CLOSED"}]_vars

\* C18: createEngine zeroes the play flag and the stop flag and they stay
\* false until it returns, whatever an earlier session or its teardown
\* left in them; the stop flag is set only by a deleteEngine call on an
\* open stream, made between createEngine calls; and a loop leaves its
\* write loop only when it reads the stop flag as set.
C18_RecreateFromScratch ==
  [][/\ ctl' # "idle" => (~engine'.requestStop_ /\ ~engine'.playAudio_)
     /\ (~engine.requestStop_ /\ engine'.requestStop_)
         => (deleteEngine /\ engine.playStream_ # NULL)
     /\ \A t \in ThreadIds :
          (threads[t].pc = "loop" /\ threads'[t].pc = "free")
            => engine.requestStop_]_vars

\* the first stream has been torn down, the engine was created again, and
\* the one loop that runs is about to write silence to the new stream
C18_Witness ==
  /\ streams[1].state = "CLOSED" /\ engine.playStream_ = 2
  /\ streams[2].state = "STARTED" /\ ~engine.requestStop_
  /\ \E t \in ThreadIds :
       /\ threads[t].pc = "write" /\ ~threads[t].playRead
       /\ \A u \in ThreadIds : Active(u) => u = t

\* C20 (as stated): whenever no createEngine call is in progress, a
\* non-null stream handle has a render loop that was launched for it and
\* has not finished its teardown.
C20_HandleImpliesLoop ==
  (ctl = "idle" /\ engine.playStream_ # NULL) => \E t \in ThreadIds : Active(t)

(***************************************************************************)
(* Properties of the tuner, checked under TunerSpec and TunerFairSpec.     *)
(***************************************************************************)
Tuned(t) == threads[t].pc = "tuned"
TunedStream(t) == streams[threads[t].stream]

\* C4 (as stated): whenever the tuner detects a tuning error (a failed set
\* request or a failed probe write) it returns failure, and the device's
\* buffer size at return is the size it had when the tuner was entered.
C4_ErrorRestoresOriginalSize ==
  \A t \in ThreadIds :
    /\ threads[t].pc # "tune_assert"
    /\ (Tuned(t) /\ threads[t].trainingError)
         => (~threads[t].status /\ TunedStream(t).bufferSize = threads[t].entrySize)

\* C5 (as stated): when the size read back after the first set request is
\* the size the device had before that request, the tuner issues no probe
\* write and returns success.
C5_FirstIterationConvergence ==
  \A t \in ThreadIds :
    (threads[t].firstAdopted # 0 /\ threads[t].firstAdopted = threads[t].entrySize)
      => (~threads[t].probed /\ (Tuned(t) => threads[t].status))

\* C6: on a device that adopts every requested size and underruns on a
\* probe write exactly when its buffer size is below the threshold, no
\* size requested or left on the device exceeds the capacity, and the
\* tuner ends with a buffer size of at most the threshold plus one burst.
C6_ConvergesNearThreshold ==
  \A t \in ThreadIds :
    (threads[t].entryState = "STARTED" /\ TunedStream(t).kind = "sim")
      => /\ threads[t].lastReq <= TunedStream(t).bufferCapacity
         /\ TunedStream(t).bufferSize <= TunedStream(t).bufferCapacity
         /\ Tuned(t) => TunedStream(t).bufferSize
                          <= TunedStream(t).threshold + TunedStream(t).framesPerBurst

\* the search climbed over several bursts and stopped at the threshold
C6_Witness ==
  /\ Tuned(1) /\ threads[1].status /\ TunedStream(1).kind = "sim"
  /\ TunedStream(1).bufferSize >= TunedStream(1).threshold
  /\ TunedStream(1).bufferSize > 2 * TunedStream(1).framesPerBurst

\* C7 (as stated): whenever the tuner returns success, the device had
\* converged or the last probe write raised no new underrun.
C7_SuccessMeansNoNewUnderrun ==
  \A t \in ThreadIds :
    (Tuned(t) /\ threads[t].status)
      => (threads[t].converged \/ (threads[t].probed /\ ~threads[t].lastProbeRaised))

\* C8: the tuner terminates, whatever sizes the device adopts, whatever its
\* underrun count does and whatever its writes return.
C8_TunerTerminates == <>(Tuned(1) \/ aborted)

\* a run of several iterations against a device whose adopted size went
\* down while its underrun count went up
C8_Witness ==
  /\ Tuned(1) /\ TunedStream(1).kind = "any"
  /\ threads[1].prevXRun >= threads[1].entryXRun + 2
  /\ threads[1].lastReq > threads[1].bufSize

\* C10: a stream that is not STARTED when the tuner is called makes it
\* return failure at once: no set request, no probe write, and the device's
\* buffer size and underrun count are what they were.
C10_NotStartedFailsUntouched ==
  \A t \in ThreadIds :
    threads[t].entryState \notin {"NONE", "STARTED"}
      => /\ Tuned(t) /\ ~threads[t].status
         /\ threads[t].lastReq = 0 /\ ~threads[t].probed
         /\ TunedStream(t).bufferSize = threads[t].entrySize
         /\ TunedStream(t).xRunCount = threads[t].entryXRun

\* the tuner has returned from a call on a stream that was still starting
C10_Witness == Tuned(1) /\ threads[1].entryState = "STARTING"

\* C17 (as stated): the first size the tuner requests is one burst, each
\* later request is the size the device adopted last plus one burst, and
\* each request is larger than the one before it, for every device.
C17_MonotonicSearch ==
  \A t \in ThreadIds :
    (threads[t].pc = "tune_loop"
       /\ InSearchRange(threads[t].bufSize, threads[t].bufCap))
      => IF threads[t].lastReq = 0
         THEN threads[t].bufSize = threads[t].framesPerBurst
         ELSE /\ threads[t].bufSize
                   = threads[t].prevBufSize + threads[t].framesPerBurst
              /\ threads[t].bufSize > threads[t].lastReq

(***************************************************************************)
(* Properties of the render loop, checked under RenderSpec.                *)
(***************************************************************************)
\* the phase a generator had before it rendered its latest numFrames frames
PhaseBefore(phase, numFrames) == (phase + Period * numFrames - numFrames) % Period

\* C11: the block handed to a steady-state write has framesPerBurst frames
\* of the device's samplesPerFrame samples; when the iteration read the play
\* flag as false every sample is zero; when it read it as true, channel 0
\* of frame i is the right generator's sample for its i-th frame after the
\* frames it had rendered before, channel 1 (stereo) the left generator's,
\* and so no sample is stale.
C11_BlockContent ==
  \A t \in ThreadIds :
    (threads[t].pc = "write" /\ ValidHandle(engine.playStream_)) =>
      LET r == threads[t]
          n == r.framesPerBurst
          spf == streams[engine.playStream_].samplesPerFrame
      IN /\ n = streams[engine.playStream_].framesPerBurst
         /\ Len(r.buf) = n * spf
         /\ \A i \in 0..(n - 1), c \in 0..(spf - 1) :
              r.buf[i * spf + c + 1] =
                IF ~r.playRead THEN Silence
                ELSE IF c = 0
                     THEN SineSample("Right", PhaseBefore(r.sineOscRight, n) + i)
                     ELSE SineSample("Left", PhaseBefore(r.sineOscLeft, n) + i)

\* a stereo block of several frames of sine is about to be written
C11_Witness ==
  /\ threads[1].pc = "write" /\ threads[1].playRead
  /\ threads[1].samplesPerFrame = 2 /\ threads[1].framesPerBurst > 1

(***************************************************************************)
(* Buffer sizes, checked under TunerSpec.                                  *)
(***************************************************************************)
\* the bytes a write of numFrames frames makes the device read from the
\* buffer it is given: the stream was opened with 16-bit samples
BytesConsumed(numFrames, samplesPerFrame) ==
  numFrames * samplesPerFrame * (BitsPerSampleI16 \div 8)

\* C19 (as stated): every device write is given a buffer of at least as
\* many bytes as the device reads from it: the tuner's probe write of
\* bufCap frames, and the steady-state write of framesPerBurst frames.
C19_WriteBufferLargeEnough ==
  \A t \in ThreadIds :
    /\ threads[t].pc = "tune_write"
         => threads[t].probeBytes
              >= BytesConsumed(threads[t].bufCap, TunedStream(t).samplesPerFrame)
    /\ threads[t].pc = "write"
         => Len(threads[t].buf) * SizeofInt16
              >= BytesConsumed(threads[t].framesPerBurst, threads[t].samplesPerFrame)

=============================================================================
